---- MODULE Spec2Model ----
(***************************************************************************)
(* Model of the document back end in src/main.py: the text chunker         *)
(* (split_text), the map-reduce summarizer (summarize_long_text) driven by *)
(* the upload route, the outline parser (parse_points), the chat route and *)
(* its completion call, the encoding loop of extract_text, and the output  *)
(* files of the generate routes; and of the Streamlit session of           *)
(* src/app.py that drives the back end.                                    *)
(*                                                                         *)
(* Strings are sequences of one-character strings.  Offsets are Python's   *)
(* 0-based half-open ranges [start, end); SubSeq is 1-based and closed, so *)
(* text[start:end] is SubSeq(text, start + 1, end).                        *)
(***************************************************************************)
EXTENDS Integers, Sequences, FiniteSets, TLC

VARIABLES
    \* ---- split_text, run one loop iteration at a time
    s_text, s_chunk_size, s_overlap, s_start, s_chunks, s_ranges, s_pc,
    \* ---- the upload request and the summarizer it drives
    pc, file, tmp_exists, remove_tried, text, chunks, idx, partial_summaries, calls,
    summary, exc, response,
    \* ---- parse_points, run one line at a time
    p_text, p_lines, p_i, points, current_title, current_content, p_pc,
    \* ---- the Streamlit session of src/app.py (st.session_state)
    messages, outline_chat, outline_mode, generated_files, summary_text,
    summary_title, doc_chat_history, outline_from_summary, generated_images,
    \* what the last handler of the session posted and what it got back
    last_request,
    \* ---- the output files staged under generated_files and their requests
    requests, disk, writes, sent, clock,
    \* ---- the chat route, its completion call and the process credential
    credential, chat_pc, chat_message, provider_requests, chat_response,
    \* ---- a .txt file written in one encoding and read by extract_text
    d_text, d_enc, d_native, d_bytes, d_k, d_result, d_pc

split_vars == <<s_text, s_chunk_size, s_overlap, s_start, s_chunks, s_ranges, s_pc>>
upload_vars == <<pc, file, tmp_exists, remove_tried, text, chunks, idx, partial_summaries,
                 calls, summary, exc, response>>
parse_vars == <<p_text, p_lines, p_i, points, current_title, current_content, p_pc>>
app_vars == <<messages, outline_chat, outline_mode, generated_files, summary_text,
              summary_title, doc_chat_history, outline_from_summary,
              generated_images, last_request>>
\* the variables outside the three machines of the document back end
files_vars == <<requests, disk, writes, sent, clock>>
call_vars == <<credential, chat_pc, chat_message, provider_requests, chat_response>>
txt_vars == <<d_text, d_enc, d_native, d_bytes, d_k, d_result, d_pc>>
ext_vars == <<app_vars, files_vars, call_vars, txt_vars>>
\* what the actions of one machine leave alone
app_frame == <<split_vars, upload_vars, parse_vars, files_vars, call_vars, txt_vars>>
files_frame == <<split_vars, upload_vars, parse_vars, app_vars, call_vars, txt_vars>>
call_frame == <<split_vars, upload_vars, parse_vars, app_vars, files_vars, txt_vars>>
txt_frame == <<split_vars, upload_vars, parse_vars, app_vars, files_vars, call_vars>>
vars == <<split_vars, upload_vars, parse_vars, ext_vars>>

----------------------------------------------------------------------------
(* Bounds of the model *)

\* longest text handed to split_text in SpecSplit
MaxLen == 5
\* largest chunk_size tried in SpecSplit
MaxChunk == 3
\* longest extracted text of an upload
MaxTextLen == 4
\* the chunk size and overlap the summarizer's split_text call runs with:
\* the defaults of split_text scaled down so that short texts give 3 chunks
SummChunkSize == 2
SummOverlap == 1
\* most lines of a model reply handed to parse_points
MaxLines == 3
\* most entries of a chat history of the session, and most generated files
MaxMessages == 2
MaxFiles == 1
\* most requests for output files, and the last second of the clock
MaxRequests == 2
MaxClock == 2
\* longest text written to a .txt file
MaxTxtLen == 2
\* length of the text of the 20,000-character scenario
ScenarioLen == 20000

(* Program constants *)
DefaultChunkSize == 8000
DefaultOverlap == 300
\* save_temp_image keeps the first 30 characters of the sanitized title
ImageTitleLen == 30

----------------------------------------------------------------------------
(* Strings *)

Min(a, b) == IF a < b THEN a ELSE b
Max(a, b) == IF a > b THEN a ELSE b

\* all sequences over S of length 0..n
SeqsUpTo(S, n) == UNION {[1..k -> S] : k \in 0..n}

Whitespace == {" "}

RECURSIVE lstrip(_)
lstrip(s) ==
    IF s # <<>> /\ Head(s) \in Whitespace THEN lstrip(Tail(s)) ELSE s

RECURSIVE rstrip(_)
rstrip(s) ==
    IF s # <<>> /\ s[Len(s)] \in Whitespace
    THEN rstrip(SubSeq(s, 1, Len(s) - 1)) ELSE s

\* str.strip()
strip(s) == lstrip(rstrip(s))

----------------------------------------------------------------------------
(* split_text(text, chunk_size, overlap) *)

\* end = min(start + chunk_size, n)
SplitEnd(start, chunk_size, n) == Min(start + chunk_size, n)

\* text[start:end]
\* (variant: the slice one character short)
SplitChunkOffByOne(t, start, end) == SubSeq(t, start + 1, end - 1)
SplitChunk(t, start, end) == SubSeq(t, start + 1, end)

\* start = max(0, end - overlap)
\* (variants: the overlap added, the operands swapped, the overlap left out)
SplitNextStartSkips(end, overlap) == Max(0, end + overlap)
SplitNextStartSwapped(end, overlap) == Max(0, overlap - end)
SplitNextStartNoOverlap(end, overlap) == Max(0, end)
SplitNextStart(end, overlap) == Max(0, end - overlap)

\* the while loop, from start with acc already appended
RECURSIVE SplitLoop(_, _, _, _, _)
SplitLoop(t, chunk_size, overlap, start, acc) ==
    IF start < Len(t)
    THEN LET end == SplitEnd(start, chunk_size, Len(t))
             acc2 == Append(acc, SplitChunk(t, start, end))
         IN  IF end = Len(t) THEN acc2
             ELSE SplitLoop(t, chunk_size, overlap,
                            SplitNextStart(end, overlap), acc2)
    ELSE acc

split_text(t, chunk_size, overlap) ==
    IF t = <<>> THEN <<>> ELSE SplitLoop(t, chunk_size, overlap, 0, <<>>)

(* The same function as a machine, one loop iteration per step. *)

SplitAlphabet == {"a", "b"}
ScenarioText == [i \in 1..ScenarioLen |-> "a"]

SplitIdle ==
    /\ s_text = <<>> /\ s_chunk_size = 1 /\ s_overlap = 0
    /\ s_start = 0 /\ s_chunks = <<>> /\ s_ranges = <<>> /\ s_pc = "off"

\* if not text: return []
SplitEmpty ==
    /\ s_pc = "entry"
    /\ s_text = <<>>
    /\ s_pc' = "done"
    /\ UNCHANGED <<s_text, s_chunk_size, s_overlap, s_start, s_chunks, s_ranges>>
    /\ UNCHANGED <<upload_vars, parse_vars, ext_vars>>

\* chunks = []; start = 0; n = len(text)
SplitBegin ==
    /\ s_pc = "entry"
    /\ s_text # <<>>
    /\ s_start' = 0
    /\ s_chunks' = <<>>
    /\ s_ranges' = <<>>
    /\ s_pc' = "loop"
    /\ UNCHANGED <<s_text, s_chunk_size, s_overlap>>
    /\ UNCHANGED <<upload_vars, parse_vars, ext_vars>>

\* one iteration of the while loop whose body ends in break
SplitLast ==
    /\ s_pc = "loop"
    /\ s_start < Len(s_text)
    /\ LET end == SplitEnd(s_start, s_chunk_size, Len(s_text))
       IN  /\ end = Len(s_text)
           /\ s_chunks' = Append(s_chunks, SplitChunk(s_text, s_start, end))
           /\ s_ranges' = Append(s_ranges, <<s_start, end>>)
    /\ s_pc' = "done"
    /\ UNCHANGED <<s_text, s_chunk_size, s_overlap, s_start>>
    /\ UNCHANGED <<upload_vars, parse_vars, ext_vars>>

\* one iteration of the while loop that moves start forward
SplitStep ==
    /\ s_pc = "loop"
    /\ s_start < Len(s_text)
    /\ LET end == SplitEnd(s_start, s_chunk_size, Len(s_text))
       IN  /\ end # Len(s_text)
           /\ s_chunks' = Append(s_chunks, SplitChunk(s_text, s_start, end))
           /\ s_ranges' = Append(s_ranges, <<s_start, end>>)
           /\ s_start' = SplitNextStart(end, s_overlap)
    /\ UNCHANGED <<s_text, s_chunk_size, s_overlap, s_pc>>
    /\ UNCHANGED <<upload_vars, parse_vars, ext_vars>>

\* the while condition fails: return chunks
SplitExit ==
    /\ s_pc = "loop"
    /\ ~(s_start < Len(s_text))
    /\ s_pc' = "done"
    /\ UNCHANGED <<s_text, s_chunk_size, s_overlap, s_start, s_chunks, s_ranges>>
    /\ UNCHANGED <<upload_vars, parse_vars, ext_vars>>

SplitInputs ==
    {<<t, c, o>> \in SeqsUpTo(SplitAlphabet, MaxLen) \X (1..MaxChunk) \X (-1..MaxChunk) :
        o < c}
    \cup {<<ScenarioText, DefaultChunkSize, DefaultOverlap>>}

InitSplitVars ==
    /\ \E in \in SplitInputs :
        /\ s_text = in[1]
        /\ s_chunk_size = in[2]
        /\ s_overlap = in[3]
    /\ s_start = 0 /\ s_chunks = <<>> /\ s_ranges = <<>>
    /\ s_pc = "entry"

NextSplit ==
    \/ SplitEmpty
    \/ SplitBegin
    \/ SplitLast
    \/ SplitStep
    \/ SplitExit

----------------------------------------------------------------------------
(* The text-generation provider and call_vertex *)

\* Python's None where a text is expected, where an exception is expected,
\* and where a response is expected
None == <<"None">>
NoExc == [status_code |-> 0, detail |-> <<>>]
NoResponse == [status_code |-> 0, detail |-> <<>>]

\* what the provider sends back for one generate_content request
Replies == {<<" ", "s">>, <<>>}
Outcomes == [ok : {TRUE}, text : Replies] \cup [ok : {FALSE}, err : {"unavailable"}]

HTTPException(status_code, detail) == [status_code |-> status_code, detail |-> detail]

\* call_vertex: response.text.strip(), or HTTPException(500, ...) for any failure
call_vertex(outcome) ==
    IF outcome.ok
    THEN [ok |-> TRUE, text |-> strip(outcome.text)]
    ELSE [ok |-> FALSE,
          exc |-> HTTPException(500, <<"Vertex AI text generation error: ", outcome.err>>)]

\* one entry of the log of completion calls: the prompt (template and
\* argument), whether the call is still in flight, and what came back
Issued(kind, arg) == [kind |-> kind, arg |-> arg, status |-> "inflight", reply |-> None]
Returned(c, r) ==
    [c EXCEPT !.status = IF r.ok THEN "returned" ELSE "failed",
              !.reply = IF r.ok THEN r.text ELSE r.exc]

\* the log with its last call answered
Answer(log, r) == [log EXCEPT ![Len(log)] = Returned(log[Len(log)], r)]

----------------------------------------------------------------------------
(* summarize_long_text *)

\* if len(chunks) <= 1
\* (variant: < in place of <=)
IsSingleStrict(cs) == Len(cs) < 1
IsSingle(cs) == Len(cs) <= 1

\* enumerate(chunks, start=1)
\* (variant: the chunks taken last to first)
enumerateReversed(cs) == [i \in 1..Len(cs) |-> <<Len(cs) + 1 - i, cs[Len(cs) + 1 - i]>>]
enumerate(cs) == [i \in 1..Len(cs) |-> <<i, cs[i]>>]

\* f"Chunk {idx}:\n{mapped.strip()}"
PartialSummary(i, mapped) == [label |-> i, text |-> strip(mapped)]

\* chunks = split_text(full_text), then the first completion call
SummarizeEnter ==
    /\ pc = "summarize"
    /\ LET cs == split_text(text, SummChunkSize, SummOverlap)
       IN  /\ chunks' = cs
           /\ IF IsSingle(cs)
              THEN /\ calls' = Append(calls, Issued("single", text))
                   /\ pc' = "wait_single"
                   /\ UNCHANGED <<idx, partial_summaries>>
              ELSE /\ partial_summaries' = <<>>
                   /\ idx' = 1
                   /\ calls' = Append(calls, Issued("chunk", enumerate(cs)[1][2]))
                   /\ pc' = "wait_chunk"
    /\ UNCHANGED <<file, tmp_exists, remove_tried, text, summary, exc, response>>
    /\ UNCHANGED <<split_vars, parse_vars, ext_vars>>

\* the single whole-text call comes back: its result is the summary
SingleReturn ==
    /\ pc = "wait_single"
    /\ \E outcome \in Outcomes :
        LET r == call_vertex(outcome)
        IN  /\ calls' = Answer(calls, r)
            /\ IF r.ok
               THEN /\ summary' = r.text
                    /\ pc' = "summarized"
                    /\ exc' = exc
               ELSE /\ exc' = r.exc
                    /\ pc' = "raised"
                    /\ summary' = summary
    /\ UNCHANGED <<file, tmp_exists, remove_tried, text, chunks, idx, partial_summaries, response>>
    /\ UNCHANGED <<split_vars, parse_vars, ext_vars>>

\* a chunk call comes back: append the labelled summary, then the next
\* chunk call, or the merge call after the last chunk
ChunkReturn ==
    /\ pc = "wait_chunk"
    /\ \E outcome \in Outcomes :
        LET r == call_vertex(outcome)
            answered == Answer(calls, r)
        IN  IF r.ok
            THEN LET ps == Append(partial_summaries,
                                  PartialSummary(enumerate(chunks)[idx][1], r.text))
                 IN  /\ partial_summaries' = ps
                     /\ IF idx < Len(chunks)
                        THEN /\ idx' = idx + 1
                             /\ calls' = Append(answered,
                                    Issued("chunk", enumerate(chunks)[idx + 1][2]))
                             /\ pc' = "wait_chunk"
                        ELSE /\ idx' = idx
                             /\ calls' = Append(answered, Issued("merge", ps))
                             /\ pc' = "wait_merge"
                     /\ exc' = exc
            ELSE /\ calls' = answered
                 /\ exc' = r.exc
                 /\ pc' = "raised"
                 /\ UNCHANGED <<idx, partial_summaries>>
    /\ UNCHANGED <<file, tmp_exists, remove_tried, text, chunks, summary, response>>
    /\ UNCHANGED <<split_vars, parse_vars, ext_vars>>

\* the merge call comes back: its result is the summary
MergeReturn ==
    /\ pc = "wait_merge"
    /\ \E outcome \in Outcomes :
        LET r == call_vertex(outcome)
        IN  /\ calls' = Answer(calls, r)
            /\ IF r.ok
               THEN /\ summary' = r.text
                    /\ pc' = "summarized"
                    /\ exc' = exc
               ELSE /\ exc' = r.exc
                    /\ pc' = "raised"
                    /\ summary' = summary
    /\ UNCHANGED <<file, tmp_exists, remove_tried, text, chunks, idx, partial_summaries, response>>
    /\ UNCHANGED <<split_vars, parse_vars, ext_vars>>

UploadTexts == SeqsUpTo({"a", " "}, MaxTextLen)

NoFile == [stem |-> "", ext |-> "", ok |-> TRUE, text |-> <<>>]

UploadIdle ==
    /\ pc = "idle" /\ file = NoFile /\ tmp_exists = FALSE /\ remove_tried = FALSE
    /\ text = <<>>
    /\ chunks = <<>> /\ idx = 0 /\ partial_summaries = <<>> /\ calls = <<>>
    /\ summary = None /\ exc = NoExc /\ response = NoResponse

\* summarize_long_text called on any text
InitSummVars ==
    /\ pc = "summarize" /\ file = NoFile /\ tmp_exists = FALSE /\ remove_tried = FALSE
    /\ text \in UploadTexts
    /\ chunks = <<>> /\ idx = 0 /\ partial_summaries = <<>> /\ calls = <<>>
    /\ summary = None /\ exc = NoExc /\ response = NoResponse

NextSumm ==
    \/ SummarizeEnter
    \/ SingleReturn
    \/ ChunkReturn
    \/ MergeReturn

----------------------------------------------------------------------------
(* extract_text and the upload route *)

Exts == {".pdf", ".PDF", ".docx", ".txt", ".png"}

\* str.lower() on the extensions of Exts
Lower(e) == IF e = ".PDF" THEN ".pdf" ELSE e

\* An uploaded file: its name, whether its library can open it (fitz.open,
\* docx.Document; for a .txt file, whether no reader of the encoding loop
\* raises an error the loop does not catch), and the text its pages,
\* paragraphs or bytes hold.
Files ==
    {f \in [stem : {"f"}, ext : Exts, ok : BOOLEAN, text : UploadTexts] :
        ~f.ok => (f.text = <<>> /\ Lower(f.ext) \in {".pdf", ".docx", ".txt"})}

extract_text(f) ==
    LET name == Lower(f.ext)
    IN  IF name \in {".pdf", ".docx"}
        THEN IF f.ok THEN [raised |-> FALSE, text |-> f.text]
                     ELSE [raised |-> TRUE, text |-> <<>>]
        ELSE IF name = ".txt"
        THEN IF f.ok THEN [raised |-> FALSE, text |-> f.text]
                     ELSE [raised |-> TRUE, text |-> <<>>]
        ELSE [raised |-> FALSE, text |-> <<>>]

\* if not text or not text.strip()
\* (variant: without the strip() test)
IsBlankEmptyOnly(t) == t = <<>>
IsBlank(t) == t = <<>> \/ strip(t) = <<>>

\* str(e) of an HTTPException: its status code and its detail
StrExc(e) == <<ToString(e.status_code), ": ">> \o e.detail

\* except Exception as e: raise HTTPException(502, f"Summarization failed: {e}")
\* (variant: the cause left out of the detail)
upload_except_drops(e) == HTTPException(502, <<"Summarization failed: ">>)
upload_except(e) == HTTPException(502, <<"Summarization failed: ", StrExc(e)>>)

\* try: text = extract_text(...) finally: os.remove(tmp_path): the clause
\* runs whether or not extract_text raised
\* (variant: os.remove after the try statement, skipped when it raises)
RemoveRunsUnlessRaised(raised) == ~raised
RemoveRuns(raised) == TRUE

\* the upload is written to a NamedTemporaryFile(delete=False)
UploadStage ==
    /\ pc \in {"idle", "done"}
    /\ file' \in Files
    /\ tmp_exists' = TRUE
    /\ remove_tried' = FALSE
    /\ text' = <<>> /\ chunks' = <<>> /\ idx' = 0 /\ partial_summaries' = <<>>
    /\ calls' = <<>> /\ summary' = None /\ exc' = NoExc /\ response' = NoResponse
    /\ pc' = "staged"
    /\ UNCHANGED <<split_vars, parse_vars, ext_vars>>

\* extract_text, os.remove in the finally clause (its failure is swallowed),
\* then the blank check
UploadExtract ==
    /\ pc = "staged"
    /\ remove_tried' = RemoveRuns(extract_text(file).raised)
    /\ IF RemoveRuns(extract_text(file).raised)
       THEN \E removed \in BOOLEAN : tmp_exists' = ~removed
       ELSE tmp_exists' = tmp_exists
    /\ LET x == extract_text(file)
       IN  IF x.raised
           THEN /\ response' = HTTPException(500, <<"Internal Server Error">>)
                /\ pc' = "done"
                /\ text' = text
           ELSE IF IsBlank(x.text)
           THEN /\ response' = HTTPException(400,
                        <<"Unsupported, empty, or unreadable file content.">>)
                /\ pc' = "done"
                /\ text' = text
           ELSE /\ text' = x.text
                /\ pc' = "summarize"
                /\ response' = response
    /\ UNCHANGED <<file, chunks, idx, partial_summaries, calls, summary, exc>>
    /\ UNCHANGED <<split_vars, parse_vars, ext_vars>>

\* generate_title(summary): one more completion call
TitleIssue ==
    /\ pc = "summarized"
    /\ calls' = Append(calls, Issued("title", summary))
    /\ pc' = "wait_title"
    /\ UNCHANGED <<file, tmp_exists, remove_tried, text, chunks, idx, partial_summaries,
                   summary, exc, response>>
    /\ UNCHANGED <<split_vars, parse_vars, ext_vars>>

\* title = generate_title(summary) or os.path.splitext(file.filename)[0]
TitleReturn ==
    /\ pc = "wait_title"
    /\ \E outcome \in Outcomes :
        LET r == call_vertex(outcome)
        IN  /\ calls' = Answer(calls, r)
            /\ IF r.ok
               THEN /\ response' =
                        [status_code |-> 200,
                         filename |-> <<file.stem, file.ext>>,
                         chars |-> Len(text),
                         chunks |-> Len(split_text(text, SummChunkSize, SummOverlap)),
                         title |-> IF strip(r.text) # <<>> THEN strip(r.text)
                                   ELSE <<file.stem>>,
                         summary |-> summary]
                    /\ pc' = "done"
                    /\ exc' = exc
               ELSE /\ exc' = r.exc
                    /\ pc' = "raised"
                    /\ response' = response
    /\ UNCHANGED <<file, tmp_exists, remove_tried, text, chunks, idx, partial_summaries, summary>>
    /\ UNCHANGED <<split_vars, parse_vars, ext_vars>>

\* the except clause around summarize_long_text and generate_title
UploadExcept ==
    /\ pc = "raised"
    /\ response' = upload_except(exc)
    /\ pc' = "done"
    /\ UNCHANGED <<file, tmp_exists, remove_tried, text, chunks, idx, partial_summaries,
                   calls, summary, exc>>
    /\ UNCHANGED <<split_vars, parse_vars, ext_vars>>

NextUpload ==
    \/ UploadStage
    \/ UploadExtract
    \/ SummarizeEnter
    \/ SingleReturn
    \/ ChunkReturn
    \/ MergeReturn
    \/ TitleIssue
    \/ TitleReturn
    \/ UploadExcept

----------------------------------------------------------------------------
(* parse_points *)
(* A reply is a sequence of characters in which the words the parser looks *)
(* for ("Slide", "Section", "Would you like") are single characters.       *)

\* the character U+2022, the round bullet
Bullet == "U+2022"

\* re.sub removes the characters # * > and the backquote (written "BQ" here)
MarkdownChars == {"#", "*", ">", "BQ"}
resub(l) == SelectSeq(l, LAMBDA c : c \notin MarkdownChars)

\* str.splitlines(): the pieces between line breaks, without a last empty piece
RECURSIVE SplitOnNewline(_, _, _)
SplitOnNewline(t, cur, acc) ==
    IF t = <<>> THEN Append(acc, cur)
    ELSE IF Head(t) = "\n" THEN SplitOnNewline(Tail(t), <<>>, Append(acc, cur))
    ELSE SplitOnNewline(Tail(t), Append(cur, Head(t)), acc)

splitlines(t) ==
    LET parts == SplitOnNewline(t, <<>>, <<>>)
    IN  IF parts[Len(parts)] = <<>> THEN SubSeq(parts, 1, Len(parts) - 1) ELSE parts

\* "\n".join(lines)
RECURSIVE JoinLines(_)
JoinLines(ls) ==
    IF ls = <<>> THEN <<>>
    ELSE IF Len(ls) = 1 THEN ls[1]
    ELSE ls[1] \o <<"\n">> \o JoinLines(Tail(ls))

\* lines = [re.sub(...).rstrip() for ln in points_text.splitlines()]
CleanLines(t) == LET raw == splitlines(t) IN [i \in 1..Len(raw) |-> rstrip(resub(raw[i]))]

\* str.lstrip(chars)
RECURSIVE lstrip_chars(_, _)
lstrip_chars(l, S) ==
    IF l # <<>> /\ Head(l) \in S THEN lstrip_chars(Tail(l), S) ELSE l

\* (Slide|Section) under re.IGNORECASE
IsKeyword(c) == c \in {"Slide", "slide", "SLIDE", "Section", "section", "SECTION"}
Digits == {"0", "1", "2", "3", "4", "5", "6", "7", "8", "9"}

RECURSIVE LeadingDigits(_)
LeadingDigits(l) ==
    IF l # <<>> /\ Head(l) \in Digits THEN 1 + LeadingDigits(Tail(l)) ELSE 0

\* re.match(r"^\s*(Slide|Section)\s*(\d+)\s*:\s*(.+)$", line, re.IGNORECASE),
\* and m.group(3).strip()
NoMatch == [matched |-> FALSE, title |-> <<>>]
header_match(l) ==
    LET a == lstrip(l)
    IN  IF a = <<>> \/ ~IsKeyword(Head(a)) THEN NoMatch
        ELSE LET b == lstrip(Tail(a))
                 nd == LeadingDigits(b)
             IN  IF nd = 0 THEN NoMatch
                 ELSE LET c == lstrip(SubSeq(b, nd + 1, Len(b)))
                      IN  IF c = <<>> \/ Head(c) # ":" \/ Tail(c) = <<>> THEN NoMatch
                          ELSE [matched |-> TRUE, title |-> strip(Tail(c))]

\* if not line or "Would you like" in line: continue
Skipped(l) == l = <<>> \/ \E k \in DOMAIN l : l[k] = "Would you like"

\* truthiness of current_title
Truthy(t) == t # None /\ t # <<>>

Item(title, content) == [title |-> title, description |-> JoinLines(content)]

\* the three branches that add a body line to current_content
BodyLine(l, content) ==
    IF strip(l) # <<>> /\ Head(strip(l)) = "-"
    THEN LET t == strip(lstrip_chars(l, {"-"}))
         IN  IF t # <<>> THEN Append(content, <<Bullet, " ">> \o t) ELSE content
    ELSE IF (strip(l) # <<>> /\ Head(strip(l)) \in {Bullet, "*"})
            \/ (Len(l) >= 2 /\ l[1] = " " /\ l[2] = " ")
    THEN LET t == strip(lstrip_chars(l, {Bullet, "*"}))
         IN  IF t # <<>> THEN Append(content, <<"-", " ">> \o t) ELSE content
    ELSE IF strip(l) # <<>> THEN Append(content, strip(l)) ELSE content

\* the lines a reply is put together from
ReplyLines ==
    { <<"Slide", " ", "1", ":", " ", "x">>,
      <<"Section", " ", "2", ":", " ", "y">>,
      <<"slide", "2", ":", "y">>,
      <<"#", " ", "Slide", " ", "1", ":", " ", "*", "x", "*">>,
      <<"Slide", " ", "2", ":", " ", "Would you like", " ", "y">>,
      <<"Slide", " ", "1", ":", " ", "*">>,
      <<"-", " ", "x">>,
      <<Bullet, " ", "y">>,
      <<" ", " ", "x">>,
      <<" ", " ", "-", " ", "x">>,
      <<"y", " ">>,
      <<"Would you like", " ", "x">>,
      <<>> }

ParseIdle ==
    /\ p_text = <<>> /\ p_lines = <<>> /\ p_i = 0 /\ points = <<>>
    /\ current_title = None /\ current_content = <<>> /\ p_pc = "off"

InitParseVars ==
    /\ \E ls \in SeqsUpTo(ReplyLines, MaxLines) : p_text = JoinLines(ls)
    /\ p_lines = <<>> /\ p_i = 0 /\ points = <<>>
    /\ current_title = None /\ current_content = <<>> /\ p_pc = "entry"

\* points = []; current_title, current_content = None, []; lines = [...]
ParseBegin ==
    /\ p_pc = "entry"
    /\ p_lines' = CleanLines(p_text)
    /\ p_i' = 0
    /\ points' = <<>>
    /\ current_title' = None
    /\ current_content' = <<>>
    /\ p_pc' = "loop"
    /\ UNCHANGED p_text
    /\ UNCHANGED <<split_vars, upload_vars, ext_vars>>

\* one iteration of for line in lines
ParseLine ==
    /\ p_pc = "loop"
    /\ p_i < Len(p_lines)
    /\ p_i' = p_i + 1
    /\ LET line == p_lines[p_i + 1]
           m == header_match(line)
       IN  IF Skipped(line)
           THEN UNCHANGED <<points, current_title, current_content>>
           ELSE IF m.matched
           THEN /\ points' = IF Truthy(current_title)
                             THEN Append(points, Item(current_title, current_content))
                             ELSE points
                /\ current_title' = m.title
                /\ current_content' = <<>>
           ELSE /\ current_content' = BodyLine(line, current_content)
                /\ UNCHANGED <<points, current_title>>
    /\ UNCHANGED <<p_text, p_lines, p_pc>>
    /\ UNCHANGED <<split_vars, upload_vars, ext_vars>>

\* after the loop: flush the last item and return points
ParseFlush ==
    /\ p_pc = "loop"
    /\ p_i = Len(p_lines)
    /\ points' = IF Truthy(current_title)
                 THEN Append(points, Item(current_title, current_content))
                 ELSE points
    /\ p_pc' = "done"
    /\ UNCHANGED <<p_text, p_lines, p_i, current_title, current_content>>
    /\ UNCHANGED <<split_vars, upload_vars, ext_vars>>

NextParse ==
    \/ ParseBegin
    \/ ParseLine
    \/ ParseFlush

----------------------------------------------------------------------------
(* A completion call and the credential of the process: the chat route *)
(* The module configures the provider with a project and a region only *)
(* (vertexai.init); the credential is whatever the environment holds.  *)

\* TEXT_MODEL.generate_content(prompt): without a credential the client
\* library raises before it sends anything; with one the request is sent and
\* the provider answers or fails
generate_content(has_credential, outcome) ==
    IF has_credential
    THEN [outcome |-> outcome, sent |-> 1]
    ELSE [outcome |-> [ok |-> FALSE, err |-> "DefaultCredentialsError"], sent |-> 0]

ChatIdle ==
    /\ credential = TRUE /\ chat_pc = "off" /\ chat_message = <<>>
    /\ provider_requests = 0 /\ chat_response = NoResponse

InitChatVars ==
    /\ credential \in BOOLEAN
    /\ chat_pc = "idle" /\ chat_message = <<>>
    /\ provider_requests = 0 /\ chat_response = NoResponse

\* POST /chat: chat(req) calls call_vertex(req.message)
ChatIssue ==
    /\ chat_pc \in {"idle", "done"}
    /\ chat_message' \in UploadTexts
    /\ chat_pc' = "wait"
    /\ provider_requests' = 0
    /\ chat_response' = NoResponse
    /\ UNCHANGED credential
    /\ UNCHANGED call_frame

\* call_vertex returns the stripped text or raises HTTPException(500, ...),
\* and the route answers {"response": reply} or with the exception
ChatReturn ==
    /\ chat_pc = "wait"
    /\ \E outcome \in Outcomes :
        LET g == generate_content(credential, outcome)
            r == call_vertex(g.outcome)
        IN  /\ provider_requests' = provider_requests + g.sent
            /\ chat_response' = IF r.ok THEN [status_code |-> 200, detail |-> r.text]
                                ELSE r.exc
    /\ chat_pc' = "done"
    /\ UNCHANGED <<credential, chat_message>>
    /\ UNCHANGED call_frame

NextChat ==
    \/ ChatIssue
    \/ ChatReturn

----------------------------------------------------------------------------
(* extract_text on a .txt file: the encodings tried in order *)
(* A text is a sequence of code points, a file a sequence of bytes. *)

\* for enc in ("utf-8", "utf-16", "utf-16-le", "utf-16-be", "latin-1")
Encodings == <<"utf-8", "utf-16", "utf-16-le", "utf-16-be", "latin-1">>

\* the characters of the texts written: "a" and e-acute
TxtChars == {97, 233}
\* the byte order of the platform, which "utf-16" uses when it writes and
\* when it reads a file without a byte order mark
ByteOrders == {"le", "be"}

IsCont(b, i) == i <= Len(b) /\ b[i] \in 128..191

Utf16Unit(cp, order) == IF order = "le" THEN <<cp % 256, cp \div 256>>
                        ELSE <<cp \div 256, cp % 256>>

\* str.encode(enc) for code points below 2048
RECURSIVE encode(_, _, _)
encode(enc, t, native) ==
    IF enc = "utf-16" THEN Utf16Unit(65279, native) \o encode("utf-16-" \o native, t, native)
    ELSE IF t = <<>> THEN <<>>
    ELSE LET cp == Head(t)
             first == IF enc = "utf-8"
                      THEN IF cp < 128 THEN <<cp>>
                           ELSE <<192 + (cp \div 64), 128 + (cp % 64)>>
                      ELSE IF enc = "utf-16-le" THEN Utf16Unit(cp, "le")
                      ELSE IF enc = "utf-16-be" THEN Utf16Unit(cp, "be")
                      ELSE <<cp>>
         IN  first \o encode(enc, Tail(t), native)

Decoded(t) == [ok |-> TRUE, text |-> t, caught |-> TRUE]
\* UnicodeDecodeError, which the loop catches
DecodeError == [ok |-> FALSE, text |-> <<>>, caught |-> TRUE]
\* UnicodeError("UTF-16 stream does not start with BOM"), which it does not
StreamError == [ok |-> FALSE, text |-> <<>>, caught |-> FALSE]

\* bytes.decode("utf-8"), strict, or with errors="ignore" (ignore = TRUE)
RECURSIVE utf8_decode(_, _, _)
utf8_decode(b, acc, ignore) ==
    IF b = <<>> THEN Decoded(acc)
    ELSE LET h == b[1]
             n == IF h < 128 THEN 1
                  ELSE IF h \in 194..223 /\ IsCont(b, 2) THEN 2
                  ELSE IF h \in 224..239 /\ IsCont(b, 2) /\ IsCont(b, 3)
                          /\ (h = 224 => b[2] >= 160) /\ (h = 237 => b[2] <= 159) THEN 3
                  ELSE IF h \in 240..244 /\ IsCont(b, 2) /\ IsCont(b, 3) /\ IsCont(b, 4)
                          /\ (h = 240 => b[2] >= 144) /\ (h = 244 => b[2] <= 143) THEN 4
                  ELSE 0
             cp == IF n = 1 THEN h
                   ELSE IF n = 2 THEN (h - 192) * 64 + (b[2] - 128)
                   ELSE IF n = 3 THEN (h - 224) * 4096 + (b[2] - 128) * 64 + (b[3] - 128)
                   ELSE (h - 240) * 262144 + (b[2] - 128) * 4096 + (b[3] - 128) * 64
                            + (b[4] - 128)
         IN  IF n > 0 THEN utf8_decode(SubSeq(b, n + 1, Len(b)), Append(acc, cp), ignore)
             ELSE IF ignore THEN utf8_decode(Tail(b), acc, ignore)
             ELSE DecodeError

\* bytes.decode("utf-16-le") / ("utf-16-be"): 16-bit units, surrogate pairs
RECURSIVE utf16_units(_, _, _)
utf16_units(b, acc, order) ==
    IF b = <<>> THEN Decoded(acc)
    ELSE IF Len(b) < 2 THEN DecodeError
    ELSE LET u == IF order = "le" THEN b[1] + 256 * b[2] ELSE 256 * b[1] + b[2]
             v == IF Len(b) < 4 THEN 0
                  ELSE IF order = "le" THEN b[3] + 256 * b[4] ELSE 256 * b[3] + b[4]
         IN  IF u \in 55296..56319
             THEN IF v \in 56320..57343
                  THEN utf16_units(SubSeq(b, 5, Len(b)),
                                   Append(acc, 65536 + (u - 55296) * 1024 + (v - 56320)), order)
                  ELSE DecodeError
             ELSE IF u \in 56320..57343 THEN DecodeError
             ELSE utf16_units(SubSeq(b, 3, Len(b)), Append(acc, u), order)

\* open(path, "r", encoding=enc).read(); the "utf-16" reader decodes a file
\* without a byte order mark in the platform's order and then refuses it
decode(enc, b, native) ==
    IF enc = "utf-8" THEN utf8_decode(b, <<>>, FALSE)
    ELSE IF enc = "utf-16"
    THEN IF Len(b) >= 2 /\ SubSeq(b, 1, 2) = <<255, 254>>
         THEN utf16_units(SubSeq(b, 3, Len(b)), <<>>, "le")
         ELSE IF Len(b) >= 2 /\ SubSeq(b, 1, 2) = <<254, 255>>
         THEN utf16_units(SubSeq(b, 3, Len(b)), <<>>, "be")
         ELSE IF utf16_units(b, <<>>, native).ok /\ Len(b) >= 2 THEN StreamError
         ELSE utf16_units(b, <<>>, native)
    ELSE IF enc = "utf-16-le" THEN utf16_units(b, <<>>, "le")
    ELSE IF enc = "utf-16-be" THEN utf16_units(b, <<>>, "be")
    ELSE Decoded(b)

TxtIdle ==
    /\ d_text = <<>> /\ d_enc = "utf-8" /\ d_native = "le" /\ d_bytes = <<>>
    /\ d_k = 0 /\ d_result = <<>> /\ d_pc = "off"

\* a text, the encoding it is to be written in, and the platform
InitTxtVars ==
    /\ d_text \in SeqsUpTo(TxtChars, MaxTxtLen)
    /\ d_enc \in {Encodings[k] : k \in DOMAIN Encodings}
    /\ d_native \in ByteOrders
    /\ d_bytes = <<>> /\ d_k = 0 /\ d_result = <<>> /\ d_pc = "entry"

\* the .txt file is written in d_enc and handed to extract_text
TxtWrite ==
    /\ d_pc = "entry"
    /\ d_bytes' = encode(d_enc, d_text, d_native)
    /\ d_k' = 1
    /\ d_pc' = "loop"
    /\ UNCHANGED <<d_text, d_enc, d_native, d_result>>
    /\ UNCHANGED txt_frame

\* one iteration of the for loop: return f.read(), continue on a
\* UnicodeDecodeError, or let any other error out of extract_text; past the
\* list, the read with errors="ignore" (no input gets there: latin-1
\* decodes every file)
TxtTry ==
    /\ d_pc = "loop"
    /\ LET x == IF d_k <= Len(Encodings)
                THEN decode(Encodings[d_k], d_bytes, d_native)
                ELSE utf8_decode(d_bytes, <<>>, TRUE)
       IN  IF x.ok
           THEN /\ d_result' = x.text
                /\ d_pc' = "done"
                /\ d_k' = d_k
           ELSE IF x.caught
           THEN /\ d_k' = d_k + 1
                /\ UNCHANGED <<d_result, d_pc>>
           ELSE /\ d_pc' = "raised"
                /\ UNCHANGED <<d_result, d_k>>
    /\ UNCHANGED <<d_text, d_enc, d_native, d_bytes>>
    /\ UNCHANGED txt_frame

NextTxt ==
    \/ TxtWrite
    \/ TxtTry

----------------------------------------------------------------------------
(* Names of the staged output files *)

\* the class [A-Za-z0-9_.-] of sanitize_filename and save_temp_image over the
\* characters of the model's titles
FilenameChars == {"a", "s", "f", "n", "_", ".", "-"}

\* re.sub(r'[^A-Za-z0-9_.-]', '_', name)
sanitize_filename(name) ==
    [i \in 1..Len(name) |-> IF name[i] \in FilenameChars THEN name[i] ELSE "_"]

\* the first index from "from" on at which s holds c, 0 when there is none
RECURSIVE Find(_, _, _)
Find(s, c, from) ==
    IF from > Len(s) THEN 0
    ELSE IF s[from] = c THEN from
    ELSE Find(s, c, from + 1)

\* re.sub(r"\s*\(.*?\)", "", title): at each position the whitespace run,
\* an opening parenthesis and the shortest text up to a closing one
RECURSIVE clean_sub(_)
clean_sub(s) ==
    IF s = <<>> THEN <<>>
    ELSE LET open == Len(s) - Len(lstrip(s)) + 1
             close == IF open <= Len(s) /\ s[open] = "("
                      THEN Find(s, ")", open + 1)
                      ELSE 0
         IN  IF close > 0
             THEN clean_sub(SubSeq(s, close + 1, Len(s)))
             ELSE <<Head(s)>> \o clean_sub(Tail(s))

clean_title(title) == strip(clean_sub(title))

\* s[:n]
Take(s, n) == SubSeq(s, 1, Min(n, Len(s)))

\* os.path.join(output_dir, f"{sanitize_filename(title)}.pptx") and ".docx"
OutputPath(title, ext) == <<"generated_files/">> \o sanitize_filename(title) \o <<ext>>

\* save_temp_image: f"{safe_title}_{idx}.png" under generated_files/images
ImagePath(i, title) ==
    <<"generated_files/images/">> \o Take(sanitize_filename(title), ImageTitleLen)
        \o <<"_", ToString(i), ".png">>

\* generate_image: f"generated_{now:%Y%m%d_%H%M%S}.png", now in whole seconds
TimestampPath(now) == <<"generated_files/images/", "generated_", ToString(now), ".png">>

\* os.path.basename
basename(path) == Tail(path)

\* title = clean_title(req.outline.title) or "Presentation" / "Document"
OutlineTitle(title, fallback) ==
    IF clean_title(title) # <<>> THEN clean_title(title) ELSE <<fallback>>

----------------------------------------------------------------------------
(* The staged output files of generate_ppt, generate_doc and generate_image *)
(* The three routes are plain functions, which the server runs on worker   *)
(* threads: a request stages its files in one step and its FileResponse    *)
(* reads the file in a later one, so that requests interleave.             *)

\* titles a request can carry (of the outline, or generated from the
\* description) and the outline items it can carry
TitleInputs == {<<"s">>, <<"s", " ", "(", "n", ")">>, <<"?">>, <<>>}
PointInputs == {<<>>} \cup {<<[title |-> t, description |-> <<>>]>> : t \in {<<"s">>, <<"?">>}}

FilesIdle ==
    /\ requests = <<>> /\ disk = {} /\ writes = {} /\ sent = {} /\ clock = 1

\* open(path, "wb") and write, by request r: the file at each path is now r's
WriteAll(files, paths, r) ==
    {f \in files : f.path \notin paths} \cup {[path |-> p, owner |-> r] : p \in paths}

\* generate_images_for_points: the paths of the images that were generated
ImagePaths(pts, generated) ==
    {ImagePath(i, pts[i].title) : i \in {j \in DOMAIN pts : generated[j]}}

\* generate_ppt and generate_doc up to create_ppt / create_doc: the title and
\* the items from the outline or from the description, one image per item,
\* the output file; or a completion call that fails before anything is staged
StageOutput(kind, ext, fallback) ==
    /\ Len(requests) < MaxRequests
    /\ \E has_outline \in BOOLEAN, t \in TitleInputs, pts \in PointInputs, failed \in BOOLEAN :
       \E generated \in [DOMAIN pts -> BOOLEAN] :
        LET r == Len(requests) + 1
            title == IF has_outline THEN OutlineTitle(t, fallback) ELSE clean_title(t)
            items == IF has_outline
                     THEN [i \in DOMAIN pts |-> [pts[i] EXCEPT !.title = clean_title(@)]]
                     ELSE pts
            filename == OutputPath(title, ext)
            paths == ImagePaths(items, generated) \cup {filename}
        IN  IF failed /\ ~has_outline
            THEN /\ requests' = Append(requests, [kind |-> kind, path |-> <<>>, pc |-> "failed"])
                 /\ UNCHANGED <<disk, writes>>
            ELSE /\ requests' = Append(requests, [kind |-> kind, path |-> filename, pc |-> "staged"])
                 /\ disk' = WriteAll(disk, paths, r)
                 /\ writes' = writes \cup {[path |-> p, request |-> r] : p \in paths}
    /\ UNCHANGED <<sent, clock>>
    /\ UNCHANGED files_frame

GeneratePpt == StageOutput("ppt", ".pptx", "Presentation")
GenerateDoc == StageOutput("doc", ".docx", "Document")

\* generate_image up to the write of the image file
GenerateImage ==
    /\ Len(requests) < MaxRequests
    /\ \E generated \in BOOLEAN :
        LET r == Len(requests) + 1
            filename == TimestampPath(clock)
        IN  IF ~generated
            THEN /\ requests' = Append(requests, [kind |-> "image", path |-> <<>>, pc |-> "failed"])
                 /\ UNCHANGED <<disk, writes>>
            ELSE /\ requests' = Append(requests, [kind |-> "image", path |-> filename, pc |-> "staged"])
                 /\ disk' = WriteAll(disk, {filename}, r)
                 /\ writes' = writes \cup {[path |-> filename, request |-> r]}
    /\ UNCHANGED <<sent, clock>>
    /\ UNCHANGED files_frame

\* return FileResponse(filename, ...): the file at the path is read and sent
FileResponseSend ==
    /\ \E r \in DOMAIN requests :
        /\ requests[r].pc = "staged"
        /\ \E f \in disk :
            /\ f.path = requests[r].path
            /\ sent' = sent \cup {[request |-> r, path |-> f.path, owner |-> f.owner]}
        /\ requests' = [requests EXCEPT ![r].pc = "served"]
    /\ UNCHANGED <<disk, writes, clock>>
    /\ UNCHANGED files_frame

\* datetime.datetime.now() moves to the next second
ClockTick ==
    /\ clock < MaxClock
    /\ clock' = clock + 1
    /\ UNCHANGED <<requests, disk, writes, sent>>
    /\ UNCHANGED files_frame

NextFiles ==
    \/ GeneratePpt
    \/ GenerateDoc
    \/ GenerateImage
    \/ FileResponseSend
    \/ ClockTick

----------------------------------------------------------------------------
(* The back end as the Streamlit session sees it: one response per POST *)

\* the paths src/main.py routes
Routes == {"/chat", "/upload/", "/generate-ppt-outline", "/generate-ppt",
           "/generate-doc-outline", "/generate-doc", "/chat-doc",
           "/generate-image", "/health"}

Response(status_code, body) == [status_code |-> status_code, body |-> body]

\* the answer to a path no route matches
NotFound == Response(404, [detail |-> <<"Not Found">>])
\* the answer to a body that fails the request model's validation
Unprocessable == Response(422, [detail |-> <<"Field required">>])
\* an HTTPException, or an exception no handler catches, as a response
ErrorResponse(e) == Response(e.status_code, [detail |-> e.detail])

\* what a completion call can return (stripped) and raise
ReplyTexts == {call_vertex(o).text : o \in {o \in Outcomes : o.ok}}
ReplyErrors == {call_vertex(o).exc : o \in {o \in Outcomes : ~o.ok}}

\* what parse_points can return for an outline reply
OutlinePoints == {<<>>, <<Item(<<"s">>, <<>>)>>}

\* seconds of the clock generate_image can read
Clock == {1, 2}

PostResponses(path, json) ==
    IF path \notin Routes THEN {NotFound}
    ELSE IF path = "/generate-ppt-outline"
    THEN {Response(200, [title |-> t, slides |-> p]) : t \in ReplyTexts, p \in OutlinePoints}
         \cup {ErrorResponse(e) : e \in ReplyErrors}
    ELSE IF path = "/generate-doc-outline"
    THEN {Response(200, [title |-> t, sections |-> p]) : t \in ReplyTexts, p \in OutlinePoints}
         \cup {ErrorResponse(e) : e \in ReplyErrors}
    ELSE IF path = "/generate-ppt"
    THEN IF "slides" \notin DOMAIN json.outline THEN {Unprocessable}
         ELSE {Response(200, [filename |->
                   basename(OutputPath(OutlineTitle(json.outline.title, "Presentation"),
                                       ".pptx"))])}
    ELSE IF path = "/generate-doc"
    THEN IF "sections" \notin DOMAIN json.outline THEN {Unprocessable}
         ELSE {Response(200, [filename |->
                   basename(OutputPath(OutlineTitle(json.outline.title, "Document"),
                                       ".docx"))])}
    ELSE IF path = "/generate-image"
    THEN {Response(200, [filename |-> basename(TimestampPath(now))]) : now \in Clock}
         \cup {ErrorResponse(HTTPException(500, <<"Image generation error: ">>))}
    ELSE IF path \in {"/chat", "/chat-doc"}
    THEN {Response(200, [response |-> t]) : t \in ReplyTexts}
         \cup {ErrorResponse(IF path = "/chat" THEN e
                             ELSE HTTPException(500, <<"Chat-with-doc failed: ", StrExc(e)>>))
                  : e \in ReplyErrors}
    ELSE IF path = "/upload/"
    THEN {Response(200, [title |-> IF t # <<>> THEN t ELSE <<"f">>, summary |-> s])
              : t \in ReplyTexts, s \in ReplyTexts}
         \cup {ErrorResponse(HTTPException(400,
                   <<"Unsupported, empty, or unreadable file content.">>))}
         \cup {ErrorResponse(upload_except(e)) : e \in ReplyErrors}
    ELSE {Response(200, [status |-> <<"ok">>])}

----------------------------------------------------------------------------
(* The Streamlit session of src/app.py *)
(* A prompt is a sequence of words; an outline is the JSON object of an    *)
(* outline response.  Each handler of the script is one action.            *)

\* st.session_state.outline_chat = None
NoOutline == [none |-> TRUE]
\* no handler has posted anything yet
NoRequest == [handler |-> "None", endpoint |-> "None", reachable |-> FALSE,
              status_code |-> 0, replaced |-> FALSE]

PromptWords == {"PPT", "doc", "image", "hi"}
Prompts == [1..1 -> PromptWords] \cup {<<"doc", "PPT">>}

\* prompt.lower()
lower(prompt) == [i \in 1..Len(prompt) |-> IF prompt[i] = "PPT" THEN "ppt" ELSE prompt[i]]

\* "w" in text, for some w of words
Mentions(txt, words) == \E i \in 1..Len(txt) : txt[i] \in words

PptWords == {"ppt", "presentation", "slides"}
DocWords == {"doc", "document", "report", "pages", "sections"}
ImageWords == {"image", "picture", "photo"}

\* what the user can leave in the title box: the outline's title, another
\* title, or nothing
NewTitles(outline) == {outline.title, <<" ", "n">>, <<>>}
Feedbacks == {<<>>, <<"f">>}

\* new_title.strip() if new_title else outline["title"]
WithTitle(outline, new_title) ==
    [outline EXCEPT !.title = IF new_title # <<>> THEN strip(new_title) ELSE @]

Request(handler, endpoint, reachable, status_code, replaced) ==
    [handler |-> handler, endpoint |-> endpoint, reachable |-> reachable,
     status_code |-> status_code, replaced |-> replaced]

AppIdle ==
    /\ messages = <<>> /\ outline_chat = NoOutline /\ outline_mode = "None"
    /\ generated_files = <<>> /\ summary_text = None /\ summary_title = None
    /\ doc_chat_history = <<>> /\ outline_from_summary = NoOutline
    /\ generated_images = <<>> /\ last_request = NoRequest

\* if prompt := st.chat_input(...)
GeneralChat ==
    /\ Len(messages) < MaxMessages
    /\ \E prompt \in Prompts, up \in BOOLEAN :
        LET txt == lower(prompt)
            said == Append(messages, <<"user", prompt>>)
            endpoint == IF Mentions(txt, PptWords) THEN "/generate-ppt-outline"
                        ELSE IF Mentions(txt, DocWords) THEN "/generate-doc-outline"
                        ELSE IF Mentions(txt, ImageWords) THEN "/generate-image"
                        ELSE "/chat"
        IN  IF ~up
            THEN /\ messages' = Append(said, <<"assistant", <<"Backend error: ">>>>)
                 /\ last_request' = Request("GeneralChat", endpoint, FALSE, 0, FALSE)
                 /\ UNCHANGED <<outline_chat, outline_mode, generated_images>>
            ELSE \E resp \in PostResponses(endpoint, [description |-> prompt]) :
                 LET ok == resp.status_code = 200
                 IN  /\ last_request' = Request("GeneralChat", endpoint, TRUE, resp.status_code,
                                                ok /\ endpoint \in {"/generate-ppt-outline",
                                                                    "/generate-doc-outline"})
                     /\ IF endpoint = "/generate-ppt-outline"
                        THEN /\ IF ok
                                THEN /\ outline_chat' = resp.body
                                     /\ outline_mode' = "ppt"
                                     /\ messages' = Append(said,
                                            <<"assistant", <<"PPT outline generated! Preview below.">>>>)
                                ELSE /\ messages' = Append(said,
                                            <<"assistant", <<"PPT outline failed: ">> \o resp.body.detail>>)
                                     /\ UNCHANGED <<outline_chat, outline_mode>>
                             /\ UNCHANGED generated_images
                        ELSE IF endpoint = "/generate-doc-outline"
                        THEN /\ IF ok
                                THEN /\ outline_chat' = resp.body
                                     /\ outline_mode' = "doc"
                                     /\ messages' = Append(said,
                                            <<"assistant", <<"DOC outline generated! Preview below.">>>>)
                                ELSE /\ messages' = Append(said,
                                            <<"assistant", <<"DOC outline failed: ">> \o resp.body.detail>>)
                                     /\ UNCHANGED <<outline_chat, outline_mode>>
                             /\ UNCHANGED generated_images
                        ELSE IF endpoint = "/generate-image"
                        THEN /\ IF ok
                                THEN /\ generated_images' = Append(generated_images,
                                            [filename |-> resp.body.filename])
                                     /\ messages' = Append(said,
                                            <<"assistant", <<"Image generated!">>>>)
                                ELSE /\ messages' = Append(said,
                                            <<"assistant", <<"Image generation failed: ">> \o resp.body.detail>>)
                                     /\ UNCHANGED generated_images
                             /\ UNCHANGED <<outline_chat, outline_mode>>
                        ELSE /\ messages' = Append(said,
                                    <<"assistant", IF ok THEN resp.body.response ELSE <<"Error">>>>)
                             /\ UNCHANGED <<outline_chat, outline_mode, generated_images>>
    /\ UNCHANGED <<generated_files, summary_text, summary_title, doc_chat_history,
                   outline_from_summary>>
    /\ UNCHANGED app_frame

\* the edit endpoint the two Apply Feedback handlers post to
EditEndpoint(mode) == IF mode = "ppt" THEN "/edit-ppt-outline" ELSE "/edit-doc-outline"
\* the endpoint the two Generate handlers post to
GenerateEndpoint(mode) == IF mode = "ppt" THEN "/generate-ppt" ELSE "/generate-doc"

\* if st.button("Apply Feedback"), shown while outline_chat is set
ApplyFeedback ==
    /\ outline_chat # NoOutline
    /\ \E new_title \in NewTitles(outline_chat), feedback_box \in Feedbacks, up \in BOOLEAN :
        LET endpoint == EditEndpoint(outline_mode)
            edit_payload == [outline |-> outline_chat, feedback |-> feedback_box]
        IN  IF ~up
            THEN /\ last_request' = Request("ApplyFeedback", endpoint, FALSE, 0, FALSE)
                 /\ UNCHANGED outline_chat
            ELSE \E resp \in PostResponses(endpoint, edit_payload) :
                 /\ last_request' = Request("ApplyFeedback", endpoint, TRUE,
                                            resp.status_code, resp.status_code = 200)
                 /\ IF resp.status_code = 200
                    THEN outline_chat' = WithTitle(resp.body, new_title)
                    ELSE UNCHANGED outline_chat
    /\ UNCHANGED <<messages, outline_mode, generated_files, summary_text, summary_title,
                   doc_chat_history, outline_from_summary, generated_images>>
    /\ UNCHANGED app_frame

\* if st.button("Generate PPT" / "Generate DOC"), shown while outline_chat is set
Generate ==
    /\ outline_chat # NoOutline
    /\ Len(generated_files) < MaxFiles
    /\ \E new_title \in NewTitles(outline_chat), up \in BOOLEAN :
        LET mode == outline_mode
            outline_to_send == WithTitle(outline_chat, new_title)
            endpoint == GenerateEndpoint(mode)
        IN  IF ~up
            THEN /\ last_request' = Request("Generate", endpoint, FALSE, 0, FALSE)
                 /\ UNCHANGED <<generated_files, outline_chat>>
            ELSE \E resp \in PostResponses(endpoint, [outline |-> outline_to_send]) :
                 /\ last_request' = Request("Generate", endpoint, TRUE, resp.status_code, FALSE)
                 /\ IF resp.status_code = 200
                    THEN /\ generated_files' = Append(generated_files,
                                [type |-> mode, filename |-> resp.body.filename])
                         /\ outline_chat' = NoOutline
                    ELSE UNCHANGED <<generated_files, outline_chat>>
    /\ UNCHANGED <<messages, outline_mode, summary_text, summary_title,
                   doc_chat_history, outline_from_summary, generated_images>>
    /\ UNCHANGED app_frame

\* if uploaded_file is not None: the file in the uploader is posted on each run
UploadSection ==
    /\ \E up \in BOOLEAN :
        IF ~up
        THEN /\ last_request' = Request("UploadSection", "/upload/", FALSE, 0, FALSE)
             /\ UNCHANGED <<summary_text, summary_title>>
        ELSE \E res \in PostResponses("/upload/", [file |-> <<"f", ".txt">>]) :
             /\ last_request' = Request("UploadSection", "/upload/", TRUE, res.status_code, FALSE)
             /\ IF res.status_code = 200
                THEN /\ summary_text' = res.body.summary
                     /\ summary_title' = res.body.title
                ELSE UNCHANGED <<summary_text, summary_title>>
    /\ UNCHANGED <<messages, outline_chat, outline_mode, generated_files,
                   doc_chat_history, outline_from_summary, generated_images>>
    /\ UNCHANGED app_frame

\* if doc_prompt := st.chat_input(...), shown while summary_text is set
DocChat ==
    /\ Truthy(summary_text)
    /\ Len(doc_chat_history) < MaxMessages
    /\ \E doc_prompt \in Prompts, up \in BOOLEAN :
        LET txt == lower(doc_prompt)
            said == Append(doc_chat_history, <<"user", doc_prompt>>)
            endpoint == IF Mentions(txt, PptWords) THEN "/generate-ppt-outline"
                        ELSE IF Mentions(txt, DocWords) THEN "/generate-doc-outline"
                        ELSE "/chat-doc"
            json == IF endpoint = "/chat-doc"
                    THEN [message |-> doc_prompt, document_text |-> summary_text]
                    ELSE [description |-> summary_text \o <<"\n", "\n">> \o doc_prompt]
        IN  IF ~up
            THEN /\ doc_chat_history' = Append(said, <<"assistant", <<"Backend error: ">>>>)
                 /\ last_request' = Request("DocChat", endpoint, FALSE, 0, FALSE)
                 /\ UNCHANGED <<outline_from_summary, outline_mode>>
            ELSE \E resp \in PostResponses(endpoint, json) :
                 LET ok == resp.status_code = 200
                 IN  /\ last_request' = Request("DocChat", endpoint, TRUE, resp.status_code,
                                                ok /\ endpoint # "/chat-doc")
                     /\ IF endpoint = "/generate-ppt-outline"
                        THEN IF ok
                             THEN /\ outline_from_summary' = [resp.body EXCEPT !.title = summary_title]
                                  /\ outline_mode' = "ppt"
                                  /\ doc_chat_history' = Append(said,
                                         <<"assistant", <<"Generated PPT outline from document. Preview below.">>>>)
                             ELSE /\ doc_chat_history' = Append(said,
                                         <<"assistant", <<"PPT outline failed: ">> \o resp.body.detail>>)
                                  /\ UNCHANGED <<outline_from_summary, outline_mode>>
                        ELSE IF endpoint = "/generate-doc-outline"
                        THEN IF ok
                             THEN /\ outline_from_summary' = [resp.body EXCEPT !.title = summary_title]
                                  /\ outline_mode' = "doc"
                                  /\ doc_chat_history' = Append(said,
                                         <<"assistant", <<"Generated DOC outline from document. Preview below.">>>>)
                             ELSE /\ doc_chat_history' = Append(said,
                                         <<"assistant", <<"DOC outline failed: ">> \o resp.body.detail>>)
                                  /\ UNCHANGED <<outline_from_summary, outline_mode>>
                        ELSE /\ doc_chat_history' = Append(said,
                                    <<"assistant", IF ok THEN resp.body.response
                                                   ELSE <<"Error: ", ToString(resp.status_code)>>
                                                            \o resp.body.detail>>)
                             /\ UNCHANGED <<outline_from_summary, outline_mode>>
    /\ UNCHANGED <<messages, outline_chat, generated_files, summary_text, summary_title,
                   generated_images>>
    /\ UNCHANGED app_frame

\* if st.button("Apply Feedback (Upload Flow)"), shown while
\* outline_from_summary is set; an unreachable back end ends the run
ApplyFeedbackUpload ==
    /\ outline_from_summary # NoOutline
    /\ \E new_title_upload \in NewTitles(outline_from_summary), feedback_box \in Feedbacks,
          up \in BOOLEAN :
        LET endpoint == EditEndpoint(outline_mode)
            edit_payload == [outline |-> outline_from_summary, feedback |-> feedback_box]
        IN  IF ~up
            THEN /\ last_request' = Request("ApplyFeedbackUpload", endpoint, FALSE, 0, FALSE)
                 /\ UNCHANGED outline_from_summary
            ELSE \E edit_resp \in PostResponses(endpoint, edit_payload) :
                 /\ last_request' = Request("ApplyFeedbackUpload", endpoint, TRUE,
                                            edit_resp.status_code, edit_resp.status_code = 200)
                 /\ IF edit_resp.status_code = 200
                    THEN outline_from_summary' = WithTitle(edit_resp.body, new_title_upload)
                    ELSE UNCHANGED outline_from_summary
    /\ UNCHANGED <<messages, outline_chat, outline_mode, generated_files, summary_text,
                   summary_title, doc_chat_history, generated_images>>
    /\ UNCHANGED app_frame

\* if st.button("Generate PPT (Upload Flow)" / "Generate DOC (Upload Flow)")
GenerateUpload ==
    /\ outline_from_summary # NoOutline
    /\ Len(generated_files) < MaxFiles
    /\ \E new_title_upload \in NewTitles(outline_from_summary), up \in BOOLEAN :
        LET mode == outline_mode
            outline_to_send == WithTitle(outline_from_summary, new_title_upload)
            endpoint == GenerateEndpoint(mode)
        IN  IF ~up
            THEN /\ last_request' = Request("GenerateUpload", endpoint, FALSE, 0, FALSE)
                 /\ UNCHANGED generated_files
            ELSE \E file_resp \in PostResponses(endpoint, [outline |-> outline_to_send]) :
                 /\ last_request' = Request("GenerateUpload", endpoint, TRUE,
                                            file_resp.status_code, FALSE)
                 /\ IF file_resp.status_code = 200
                    THEN generated_files' = Append(generated_files,
                             [type |-> mode, filename |-> file_resp.body.filename])
                    ELSE UNCHANGED generated_files
    /\ UNCHANGED <<messages, outline_chat, outline_mode, summary_text, summary_title,
                   doc_chat_history, outline_from_summary, generated_images>>
    /\ UNCHANGED app_frame

NextApp ==
    \/ GeneralChat
    \/ ApplyFeedback
    \/ Generate
    \/ UploadSection
    \/ DocChat
    \/ ApplyFeedbackUpload
    \/ GenerateUpload

\* every machine outside the document back end at rest
ExtIdle == AppIdle /\ FilesIdle /\ ChatIdle /\ TxtIdle

----------------------------------------------------------------------------
(* Specifications *)

\* upload requests, one after another
Init == SplitIdle /\ UploadIdle /\ ParseIdle /\ ExtIdle
Next == NextUpload
Spec == Init /\ [][Next]_vars

\* summarize_long_text on every text
InitSumm == SplitIdle /\ InitSummVars /\ ParseIdle /\ ExtIdle
SpecSumm == InitSumm /\ [][NextSumm]_vars

\* split_text on every text, chunk size and overlap; the loop keeps running
InitSplit == InitSplitVars /\ UploadIdle /\ ParseIdle /\ ExtIdle
SpecSplit == InitSplit /\ [][NextSplit]_vars /\ WF_vars(NextSplit)

\* parse_points on every reply of up to MaxLines lines
InitParse == SplitIdle /\ UploadIdle /\ InitParseVars /\ ExtIdle
SpecParse == InitParse /\ [][NextParse]_vars

\* one Streamlit session against the back end
InitApp == SplitIdle /\ UploadIdle /\ ParseIdle /\ ExtIdle
SpecApp == InitApp /\ [][NextApp]_vars

\* requests for output files, interleaved
InitFiles == SplitIdle /\ UploadIdle /\ ParseIdle /\ ExtIdle
SpecFiles == InitFiles /\ [][NextFiles]_vars

\* chat requests in a process with or without a credential
InitChat == SplitIdle /\ UploadIdle /\ ParseIdle /\ AppIdle /\ FilesIdle /\ InitChatVars /\ TxtIdle
SpecChat == InitChat /\ [][NextChat]_vars

\* extract_text on .txt files written in each of the encodings
InitTxt == SplitIdle /\ UploadIdle /\ ParseIdle /\ AppIdle /\ FilesIdle /\ ChatIdle /\ InitTxtVars
SpecTxt == InitTxt /\ [][NextTxt]_vars

----------------------------------------------------------------------------
(* Properties *)

\* the split_text machine and the split_text operator compute the same chunks
SplitMachineAgrees ==
    s_pc = "done" => s_chunks = split_text(s_text, s_chunk_size, s_overlap)

SummChunks == split_text(text, SummChunkSize, SummOverlap)

\* C1: a summarize_long_text run in which no call failed has issued exactly
\* 1 completion call when split_text gave 0 or 1 chunks, and exactly
\* chunk count + 1 calls when it gave 2 or more.
C1_CallCount ==
    pc = "summarized" =>
        /\ \A i \in DOMAIN calls : calls[i].status = "returned"
        /\ Len(calls) = IF Len(SummChunks) <= 1 THEN 1 ELSE Len(SummChunks) + 1

C1_Witness ==
    /\ pc = "summarized"
    /\ Len(SummChunks) = 3
    /\ Len(calls) = 4

\* the 0-chunk and the 1-chunk case of C1 happen too
C1_WitnessEmpty == pc = "summarized" /\ Len(SummChunks) = 0 /\ Len(calls) = 1
C1_WitnessOne == pc = "summarized" /\ Len(SummChunks) = 1 /\ Len(calls) = 1

InFlight == {i \in DOMAIN calls : calls[i].status = "inflight"}

\* C2: over k >= 2 chunks the chunk calls are issued one at a time in chunk
\* order 1..k, a call is issued only when every earlier call has come back,
\* the merge call comes after all k chunk calls have returned, and no two
\* calls are in flight together.
C2_Ordering ==
    /\ Cardinality(InFlight) <= 1
    /\ \A i \in InFlight : i = Len(calls)
    /\ Len(chunks) >= 2 =>
        /\ Len(calls) <= Len(chunks) + 1
        /\ \A i \in DOMAIN calls :
            IF i <= Len(chunks)
            THEN calls[i].kind = "chunk" /\ calls[i].arg = SummChunks[i]
            ELSE /\ calls[i].kind = "merge"
                 /\ \A j \in 1..Len(chunks) : calls[j].status = "returned"

C2_Witness ==
    /\ pc = "wait_merge"
    /\ Len(chunks) = 3
    /\ InFlight = {4}
    /\ SummChunks[1] # SummChunks[3]

\* C4: the text handed to the merge call holds the chunk summaries in chunk
\* order, each once, the i-th being the (stripped) reply to the call made
\* for chunk i and labelled i.
C4_MergeOrder ==
    \A m \in DOMAIN calls :
        calls[m].kind = "merge" =>
            /\ Len(calls[m].arg) = Len(SummChunks)
            /\ \A i \in 1..Len(SummChunks) :
                /\ calls[i].kind = "chunk"
                /\ calls[i].arg = SummChunks[i]
                /\ calls[m].arg[i].label = i
                /\ calls[m].arg[i].text = strip(calls[i].reply)

C4_Witness ==
    /\ \E m \in DOMAIN calls : calls[m].kind = "merge" /\ Len(calls[m].arg) = 3
                                /\ calls[m].arg[1].text # calls[m].arg[2].text
    /\ SummChunks[1] # SummChunks[2]

FailedChunkCalls ==
    {i \in DOMAIN calls : calls[i].kind = "chunk" /\ calls[i].status = "failed"}

\* C3: once a chunk call has failed, no further call is issued, no summary
\* exists, and the response of the upload is an error that carries the
\* provider's error and no summary.
C3_ChunkFailureAborts ==
    \A i \in FailedChunkCalls :
        /\ i = Len(calls)
        /\ summary = None
        /\ pc \in {"raised", "done"}
        /\ pc = "done" =>
            /\ response.status_code = 502
            /\ DOMAIN response = {"status_code", "detail"}
            /\ Len(response.detail) = 2
            /\ \E k \in DOMAIN response.detail[2] :
                response.detail[2][k] = "unavailable"

C3_Witness ==
    /\ pc = "done"
    /\ FailedChunkCalls = {2}
    /\ calls[1].status = "returned"
    /\ response.status_code = 502

AllWhitespace(t) == \A k \in DOMAIN t : t[k] = " "

\* C10: an upload whose extracted text is empty or all whitespace (every
\* file whose extension is none of .pdf, .docx, .txt extracts to the empty
\* text) is answered with an error, and no completion call is issued for it.
C10_BlankRejected ==
    pc \notin {"idle", "staged"} =>
        /\ Lower(file.ext) \notin {".pdf", ".docx", ".txt"} =>
            extract_text(file) = [raised |-> FALSE, text |-> <<>>]
        /\ (~extract_text(file).raised /\ AllWhitespace(extract_text(file).text)) =>
            /\ pc = "done"
            /\ response.status_code = 400
            /\ calls = <<>>

C10_Witness ==
    /\ pc = "done"
    /\ file.ext = ".txt"
    /\ Len(file.text) = 2
    /\ AllWhitespace(file.text)
    /\ response.status_code = 400
    /\ calls = <<>>

\* an unsupported extension with text in the file is rejected too
C10_WitnessUnsupported ==
    /\ pc = "done" /\ file.ext = ".png" /\ file.text = <<"a">>
    /\ response.status_code = 400 /\ calls = <<>>

SplitValid == s_chunk_size > 0 /\ 0 <= s_overlap /\ s_overlap < s_chunk_size

\* C5: for chunk_size > 0 and 0 <= overlap < chunk_size the chunks are the
\* substrings of the text at the recorded ranges, every position of the text
\* lies in some range, the first range starts at 0, the last ends at
\* len(text), and each range starts at or before the end of the one before.
C5_Coverage ==
    (s_pc = "done" /\ SplitValid) =>
        /\ Len(s_ranges) = Len(s_chunks)
        /\ \A i \in DOMAIN s_chunks :
            /\ 0 <= s_ranges[i][1]
            /\ s_ranges[i][1] < s_ranges[i][2]
            /\ s_ranges[i][2] <= Len(s_text)
            /\ s_chunks[i] = [k \in 1..(s_ranges[i][2] - s_ranges[i][1]) |->
                                s_text[s_ranges[i][1] + k]]
        /\ \A p \in 1..Len(s_text) :
            \E i \in DOMAIN s_ranges : s_ranges[i][1] < p /\ p <= s_ranges[i][2]
        /\ s_chunks # <<>> =>
            /\ s_ranges[1][1] = 0
            /\ s_ranges[Len(s_ranges)][2] = Len(s_text)
        /\ \A i \in 1..(Len(s_ranges) - 1) : s_ranges[i + 1][1] <= s_ranges[i][2]

C5_Witness ==
    /\ s_pc = "done"
    /\ SplitValid
    /\ s_overlap = 1
    /\ Len(s_chunks) = 3
    /\ s_ranges[2][1] < s_ranges[1][2]

\* ceil(a / b) for b > 0
CeilDiv(a, b) == (a + b - 1) \div b

ExpectedCount(n, c, o) == CeilDiv(n - o, c - o)

\* C6 as stated: the number of chunks is ceil((len - overlap) /
\* (chunk_size - overlap)) when len > chunk_size, and 1 otherwise.
C6_CountAsStated ==
    (s_pc = "done" /\ SplitValid) =>
        Len(s_chunks) = IF Len(s_text) > s_chunk_size
                        THEN ExpectedCount(Len(s_text), s_chunk_size, s_overlap)
                        ELSE 1

\* C6, amended: the number of chunks is ceil((len - overlap) /
\* (chunk_size - overlap)) when len > chunk_size, 1 when 1 <= len <=
\* chunk_size, and 0 for the empty text; 20,000 characters at the default
\* chunk size and overlap give the three ranges [0, 8000), [7700, 15700),
\* [15400, 20000).
C6_Count ==
    (s_pc = "done" /\ SplitValid) =>
        /\ Len(s_chunks) = IF Len(s_text) > s_chunk_size
                           THEN ExpectedCount(Len(s_text), s_chunk_size, s_overlap)
                           ELSE IF Len(s_text) >= 1 THEN 1 ELSE 0
        /\ (s_text = ScenarioText /\ s_chunk_size = DefaultChunkSize
                /\ s_overlap = DefaultOverlap) =>
            s_ranges = << <<0, DefaultChunkSize>>,
                          <<DefaultChunkSize - DefaultOverlap,
                            2 * DefaultChunkSize - DefaultOverlap>>,
                          <<2 * (DefaultChunkSize - DefaultOverlap), ScenarioLen>> >>

C6_Witness ==
    /\ s_pc = "done"
    /\ SplitValid
    /\ s_text = ScenarioText
    /\ Len(s_chunks) = 3

\* the small cases of C6 happen too
C6_WitnessSmall ==
    /\ s_pc = "done" /\ SplitValid /\ Len(s_text) = 5 /\ s_chunk_size = 3
    /\ s_overlap = 2 /\ Len(s_chunks) = 3

\* C7 as stated: a text of any length from 0 to chunk_size gives exactly one
\* chunk, equal to the text.
C7_SingleChunkAsStated ==
    (s_pc = "done" /\ Len(s_text) <= s_chunk_size) => s_chunks = <<s_text>>

\* C7, amended: a text of any length from 1 to chunk_size gives exactly one
\* chunk, equal to the text; the empty text gives no chunk.
C7_SingleChunk ==
    /\ (s_pc = "done" /\ 1 <= Len(s_text) /\ Len(s_text) <= s_chunk_size) =>
        s_chunks = <<s_text>>
    /\ (s_pc = "done" /\ Len(s_text) = 0) => s_chunks = <<>>

C7_Witness ==
    /\ s_pc = "done"
    /\ Len(s_text) = s_chunk_size
    /\ Len(s_text) = 3
    /\ s_chunks = <<s_text>>

\* C8: for chunk_size > 0 and overlap < chunk_size every loop iteration that
\* goes round again moves start strictly forward, and the loop ends.
C8_Progress ==
    /\ [][(s_pc = "loop" /\ s_pc' = "loop") => s_start' > s_start]_vars
    /\ <>(s_pc = "done")

C8_Witness ==
    /\ s_pc = "loop"
    /\ Len(s_ranges) = 3
    /\ s_start > s_ranges[3][1]

\* the header lines of a reply: the lines that, once the markdown characters
\* are dropped, have the form "Slide k: title" or "Section k: title"
HeaderLines(t) == SelectSeq(CleanLines(t), LAMBDA l : header_match(l).matched)

\* C9: a reply with N header lines parses to exactly N items, in the order of
\* the header lines, the i-th title being the title text of the i-th header
\* line; a reply without header lines parses to no item.
C9_ItemPerHeader ==
    p_pc = "done" =>
        /\ Len(points) = Len(HeaderLines(p_text))
        /\ \A i \in DOMAIN points :
            points[i].title = header_match(HeaderLines(p_text)[i]).title

----------------------------------------------------------------------------
(* The session and its outlines *)

\* C11: whenever an Apply Feedback handler (chat flow or upload flow) has
\* posted the cached outline and the feedback to a reachable back end, the
\* back end's edit operation answered 200 with a new outline and the
\* session's cached outline was replaced by it.
C11_FeedbackReplacesOutline ==
    (last_request.handler \in {"ApplyFeedback", "ApplyFeedbackUpload"}
        /\ last_request.reachable)
    => (last_request.status_code = 200 /\ last_request.replaced)

\* the kind of an outline object: "ppt" when it carries slides, "doc" when
\* it carries sections
OutlineKind(outline) ==
    IF "slides" \in DOMAIN outline THEN "ppt"
    ELSE IF "sections" \in DOMAIN outline THEN "doc"
    ELSE "None"

\* C17: in every state of the session, when outline_chat holds an outline
\* the shared outline_mode names its kind, and when outline_from_summary
\* holds an outline the shared outline_mode names its kind.
C17_ModeNamesOutline ==
    /\ outline_chat # NoOutline => outline_mode = OutlineKind(outline_chat)
    /\ outline_from_summary # NoOutline => outline_mode = OutlineKind(outline_from_summary)

----------------------------------------------------------------------------
(* Staged output files *)

\* C12: across every interleaving of generate-ppt, generate-doc and
\* generate-image requests, no path is written by two different requests,
\* and the file a request serves is the file that request staged.
C12_StagedFileOwnedByOneRequest ==
    /\ \A w1 \in writes : \A w2 \in writes :
          w1.path = w2.path => w1.request = w2.request
    /\ \A f \in sent : f.owner = f.request

----------------------------------------------------------------------------
(* Bodies of the parsed items *)

\* the lines of the bodies of the items returned
BodyLinesOf(items) ==
    UNION {{splitlines(items[i].description)[j] :
                j \in DOMAIN splitlines(items[i].description)} : i \in DOMAIN items}

\* the body lines stored by one of the two bullet branches: only those
\* branches store a line that begins with a bullet symbol
BulletLinesOf(items) == {l \in BodyLinesOf(items) : l # <<>> /\ l[1] \in {Bullet, "-"}}

\* C13 (bullets): in the bodies of the items returned, the lines stored for
\* the reply's bullet lines all begin with one and the same bullet symbol,
\* and with a single one (the text after it does not begin with another).
C13_OneBulletSymbol ==
    p_pc = "done" =>
        /\ Cardinality({l[1] : l \in BulletLinesOf(points)}) <= 1
        /\ \A l \in BulletLinesOf(points) : Len(l) >= 3 => l[3] \notin {Bullet, "-"}

\* C13 (phrase): no body line of an item returned holds "Would you like".
C13_PhraseDropped ==
    p_pc = "done" =>
        \A l \in BodyLinesOf(points) : \A k \in DOMAIN l : l[k] # "Would you like"

\* C13: every body line the reply marked as a bullet (leading "-", leading
\* bullet character, or indented) is stored with one and the same single
\* leading bullet symbol, and every reply line that holds "Would you like"
\* is absent from every body.
C13_BulletsNormalized == C13_OneBulletSymbol /\ C13_PhraseDropped

----------------------------------------------------------------------------
(* Errors of a completion call *)

\* what tells one error of a completion call from another: the status code
\* and the message the detail begins with (the exception class is the same)
ErrorKind(e) == [status_code |-> e.status_code, message |-> e.detail[1]]

\* the kinds of the errors a failing provider gives
ProviderErrorKinds == {ErrorKind(call_vertex(o).exc) : o \in {o \in Outcomes : ~o.ok}}

\* C14: a completion call made without a credential ends in an error whose
\* kind is none of the provider errors' kinds, and no request has been sent
\* to the provider.
C14_ConfigurationErrorDistinct ==
    (chat_pc = "done" /\ ~credential) =>
        /\ chat_response.status_code # 200
        /\ ErrorKind(chat_response) \notin ProviderErrorKinds
        /\ provider_requests = 0

----------------------------------------------------------------------------
(* Text files *)

\* the result of the first encoding of the list that decodes the file
RECURSIVE FirstDecoding(_, _, _)
FirstDecoding(k, b, native) ==
    IF k > Len(Encodings) THEN DecodeError
    ELSE IF decode(Encodings[k], b, native).ok THEN decode(Encodings[k], b, native)
    ELSE FirstDecoding(k + 1, b, native)

\* C15 (round trip): the text extract_text returns for a .txt file written
\* in any encoding of the list is exactly the text that was written.
C15_RoundTrip ==
    d_pc \in {"done", "raised"} => (d_pc = "done" /\ d_result = d_text)

\* C15 (order): extract_text returns what the first encoding of the list
\* that decodes the file without error gives.
C15_FirstDecodingReturned ==
    d_pc \in {"done", "raised"} =>
        (d_pc = "done" /\ d_result = FirstDecoding(1, d_bytes, d_native).text)

\* C15: for every text and every encoding of the list, the file written in
\* that encoding is read back as exactly the original text, and the result
\* is that of the first encoding in the fixed order that decodes the file.
C15_TxtRoundTrip == C15_RoundTrip /\ C15_FirstDecodingReturned

----------------------------------------------------------------------------
(* The staged upload *)

\* C16: on every path through upload, whenever a completion call has been
\* issued, a response or an error has been produced, or text extraction is
\* over, the removal of the staged temp file has been attempted; and the
\* file is there only while it is staged or when that removal failed.
C16_TempRemovedFirst ==
    /\ calls # <<>> => remove_tried
    /\ response # NoResponse => remove_tried
    /\ pc \notin {"idle", "staged"} => remove_tried
    /\ tmp_exists => (pc = "staged" \/ remove_tried)

\* extraction raised: the error response is there and the removal was tried
C16_Witness ==
    /\ pc = "done" /\ ~file.ok
    /\ response.status_code = 500
    /\ remove_tried /\ ~tmp_exists

\* extraction returned text: a completion call is out, the removal was tried
C16_WitnessText ==
    /\ calls # <<>> /\ text # <<>>
    /\ remove_tried /\ ~tmp_exists

\* extraction returned no text: the 400 is there and the removal was tried
C16_WitnessEmpty ==
    /\ pc = "done" /\ file.ok
    /\ response.status_code = 400
    /\ remove_tried

====
